---- MODULE Spec2Model ----
(***************************************************************************)
(* Model of c_src/spectral.c: the field-producing functions linspace,      *)
(* meshgrid, grid, radius and the profile evaluators, over a heap of       *)
(* malloc'ed blocks.                                                       *)
(*                                                                         *)
(* Numbers.  A C floating-point value is modelled as an exact rational     *)
(* <<n, d>> in lowest terms with d > 0, extended with the IEEE-754         *)
(* specials +Inf = <<1, 0>>, -Inf = <<-1, 0>> and NaN = <<0, 0>>.          *)
(* Rounding is not modelled: every finite operation is exact.  The         *)
(* irrational results of sqrt are kept as surds <<n, d, 2>> = sqrt(n/d);   *)
(* the remaining libm calls (pow, exp, atan2, cos of a field value) are    *)
(* kept as terms over their operands.  cos(pa) and sin(pa) are tabulated   *)
(* for a few angles whose cosine and sine are rational.                    *)
(*                                                                         *)
(* malloc is assumed to succeed and to return a block distinct from every  *)
(* other block (the code never tests its result).                          *)
(***************************************************************************)
EXTENDS Integers, Sequences, FiniteSets, TLC

\* ------------------------------------------------------------------ bounds
MaxDim == 4
ParDim == 2

\* ------------------------------------------------------ extended rationals
Abs(n) == IF n < 0 THEN -n ELSE n

Sgn(n) == IF n < 0 THEN -1 ELSE IF n > 0 THEN 1 ELSE 0

RECURSIVE Gcd(_, _)
Gcd(a, b) == IF b = 0 THEN a ELSE Gcd(b, a % b)

\* lowest terms, positive denominator; a zero denominator keeps only the sign
Norm(n, d) ==
  IF d = 0 THEN <<Sgn(n), 0>>
  ELSE LET g == Gcd(Abs(n), Abs(d))
       IN  <<(Sgn(d) * n) \div g, Abs(d) \div g>>

Rat(n) == <<n, 1>>
NaN == <<0, 0>>
PosInf == <<1, 0>>
NegInf == <<-1, 0>>

IsNaN(a) == a = NaN
IsFinite(a) == a[2] # 0

RAdd(a, b) ==
  IF IsNaN(a) \/ IsNaN(b) THEN NaN
  ELSE IF ~IsFinite(a) /\ ~IsFinite(b) THEN (IF a = b THEN a ELSE NaN)
  ELSE IF ~IsFinite(a) THEN a
  ELSE IF ~IsFinite(b) THEN b
  ELSE Norm(a[1] * b[2] + b[1] * a[2], a[2] * b[2])

RNeg(a) == <<-a[1], a[2]>>

RSub(a, b) == RAdd(a, RNeg(b))

\* Inf * 0 = NaN, Inf * x = +-Inf, NaN * x = NaN all fall out of Norm
RMul(a, b) == Norm(a[1] * b[1], a[2] * b[2])

\* IEEE division: x/0 = +-Inf (x # 0), 0/0 = NaN, x/Inf = 0, Inf/Inf = NaN;
\* the divisor's zero is +0
RDiv(a, b) ==
  LET s == IF b[1] < 0 THEN -1 ELSE 1
  IN  Norm(s * a[1] * b[2], a[2] * Abs(b[1]))

\* the C comparisons: every comparison with a NaN is false
FEq(a, b) == ~IsNaN(a) /\ ~IsNaN(b) /\ a = b

FLt(a, b) ==
  /\ ~IsNaN(a) /\ ~IsNaN(b) /\ a # b
  /\ IF ~IsFinite(a) THEN a = NegInf
     ELSE IF ~IsFinite(b) THEN b = PosInf
     ELSE a[1] * b[2] < b[1] * a[2]

\* ------------------------------------------------------------------- libm
\* the largest r in lo..hi with r*r <= n, by bisection (lo*lo <= n)
RECURSIVE Floor2(_, _, _)
Floor2(n, lo, hi) ==
  IF lo = hi THEN lo
  ELSE LET mid == (lo + hi + 1) \div 2
       IN  IF mid * mid <= n THEN Floor2(n, mid, hi) ELSE Floor2(n, lo, mid - 1)

\* the integer square root of n >= 0; -1 when n is not a perfect square
ISqrt(n) ==
  LET r == Floor2(n, 0, IF n < 46340 THEN n ELSE 46340)
  IN  IF r * r = n THEN r ELSE -1

\* sqrt(x): exact when x is the square of a rational, else the surd of x
Sqrt(a) ==
  IF IsNaN(a) \/ a[1] < 0 THEN NaN
  ELSE IF ~IsFinite(a) THEN PosInf
  ELSE IF ISqrt(a[1]) >= 0 /\ ISqrt(a[2]) >= 0 THEN <<ISqrt(a[1]), ISqrt(a[2])>>
  ELSE <<a[1], a[2], 2>>

\* pow(x, 2)
Pow2(a) == RMul(a, a)

\* position angles: 0, atan(4/3), pi/2, pi, -atan(3/4)
PAs == 0..4

Cos(pa) == CASE pa = 0 -> Rat(1)
             [] pa = 1 -> <<3, 5>>
             [] pa = 2 -> Rat(0)
             [] pa = 3 -> Rat(-1)
             [] pa = 4 -> <<4, 5>>

Sin(pa) == CASE pa = 0 -> Rat(0)
             [] pa = 1 -> <<4, 5>>
             [] pa = 2 -> Rat(1)
             [] pa = 3 -> Rat(0)
             [] pa = 4 -> <<-3, 5>>

\* ----------------------------------------------------------- pure functions
\* a floating-point division raises no arithmetic fault, whatever the divisor
\* what an integer division would do: trap on a zero divisor
DivFaults_integer(a, b) == b = Rat(0)

DivFaults(a, b) == FALSE

\* double step = (stop - start)/dim;
linspace_step(start, stop, dim) == RDiv(RSub(stop, start), Rat(dim))

\* the closed interval: the step divides by dim - 1, so the last element is stop
linspace_closed(start, stop, dim, factor) ==
  LET step == RDiv(RSub(stop, start), Rat(dim - 1))
  IN  [i \in 1..dim |-> RMul(RAdd(start, RMul(Rat(i - 1), step)), factor)]

\* pixel centres: element i sits half a step further
linspace_centred(start, stop, dim, factor) ==
  LET step == linspace_step(start, stop, dim)
  IN  [i \in 1..dim |->
         RMul(RAdd(start, RMul(<<2 * i - 1, 2>>, step)), factor)]

linspace(start, stop, dim, factor) ==
  LET step == linspace_step(start, stop, dim)
  IN  [i \in 1..dim |-> RMul(RAdd(start, RMul(Rat(i - 1), step)), factor)]

\* the two axes exchanged
meshgrid_swapped(linear_grid, dim, axis) ==
  [k \in 1..(dim * dim) |->
     LET i == (k - 1) \div dim
         j == (k - 1) % dim
     IN  IF axis = 0 THEN linear_grid[j + 1] ELSE linear_grid[i + 1]]

meshgrid(linear_grid, dim, axis) ==
  [k \in 1..(dim * dim) |->
     LET i == (k - 1) \div dim
         j == (k - 1) % dim
     IN  IF axis = 0 THEN linear_grid[i + 1] ELSE linear_grid[j + 1]]

\* the simultaneous rotation: yy is computed from the original xx
EllipticPixel_simultaneous(g, i, pa, elong) ==
  LET nxx == RSub(RMul(g.xx[i], Cos(pa)), RMul(g.yy[i], Sin(pa)))
      nyy == RDiv(RAdd(RMul(g.xx[i], Sin(pa)), RMul(g.yy[i], Cos(pa))), elong)
  IN  [xx |-> [g.xx EXCEPT ![i] = nxx], yy |-> [g.yy EXCEPT ![i] = nyy]]

\* yy multiplied by elong instead of divided
EllipticPixel_times_elong(g, i, pa, elong) ==
  LET nxx == RSub(RMul(g.xx[i], Cos(pa)), RMul(g.yy[i], Sin(pa)))
      nyy == RMul(RAdd(RMul(nxx, Sin(pa)), RMul(g.yy[i], Cos(pa))), elong)
  IN  [xx |-> [g.xx EXCEPT ![i] = nxx], yy |-> [g.yy EXCEPT ![i] = nyy]]

\* yy computed from the yy of the pixel before
EllipticPixel_neighbour(g, i, pa, elong) ==
  LET p == IF i > 1 THEN i - 1 ELSE i
      nxx == RSub(RMul(g.xx[i], Cos(pa)), RMul(g.yy[i], Sin(pa)))
      nyy == RDiv(RAdd(RMul(nxx, Sin(pa)), RMul(g.yy[p], Cos(pa))), elong)
  IN  [xx |-> [g.xx EXCEPT ![i] = nxx], yy |-> [g.yy EXCEPT ![i] = nyy]]

\* body of the elliptic loop for pixel i, on the planes g = [xx, yy]
EllipticPixel(g, i, pa, elong) ==
  LET nxx == RSub(RMul(g.xx[i], Cos(pa)), RMul(g.yy[i], Sin(pa)))
      nyy == RDiv(RAdd(RMul(nxx, Sin(pa)), RMul(g.yy[i], Cos(pa))), elong)
  IN  [xx |-> [g.xx EXCEPT ![i] = nxx], yy |-> [g.yy EXCEPT ![i] = nyy]]

\* the loop for pixels i..n in index order
RECURSIVE EllipticLoop(_, _, _, _, _)
EllipticLoop(g, i, n, pa, elong) ==
  IF i > n THEN g
  ELSE EllipticLoop(EllipticPixel(g, i, pa, elong), i + 1, n, pa, elong)

\* the flag ignored
CTrue_always(v) == TRUE

\* a C int used as a condition
CTrue(v) == v # 0

grid(dim, pixel_size, pa, elong, elliptic) ==
  LET x == linspace(<<-1, 2>>, <<1, 2>>, dim, RMul(Rat(dim), pixel_size))
      g == [xx |-> meshgrid(x, dim, 1), yy |-> meshgrid(x, dim, 0)]
  IN  IF CTrue(elliptic) THEN EllipticLoop(g, 1, dim * dim, pa, elong) ELSE g

\* xx used for both coordinates
RadiusPixel_xx_twice(xx, yy, i) == Sqrt(RAdd(Pow2(xx[i]), Pow2(xx[i])))

RadiusPixel(xx, yy, i) == Sqrt(RAdd(Pow2(xx[i]), Pow2(yy[i])))

radius(xx, yy, dim) == [i \in 1..(dim * dim) |-> RadiusPixel(xx, yy, i)]

\* the value of a libm expression the model does not evaluate: the function
\* named f applied to the operands x, y, z of one pixel
App(f, x, y, z) == <<f, x, y, z>>

const_temperature(rad, stellar_radius, stellar_temperature, dim) ==
  [i \in 1..(dim * dim) |->
     App("T*sqrt(R/(2r))", stellar_temperature, stellar_radius, rad[i])]

temperature_power_law(rad, inner_temp, inner_radius, q, dim) ==
  [i \in 1..(dim * dim) |->
     App("T*pow(r/R,-q)", inner_temp, <<rad[i], inner_radius>>, q)]

surface_density_profile(rad, inner_radius, inner_sigma, p, dim) ==
  [i \in 1..(dim * dim) |->
     App("S*pow(r/R,-p)", inner_sigma, <<rad[i], inner_radius>>, p)]

azimuthal_modulation(xx, yy, a, phi, dim) ==
  [i \in 1..(dim * dim) |-> App("a*cos(atan2(y,x)-phi)", a, <<yy[i], xx[i]>>, phi)]

optical_thickness(sdp, opacity, dim) ==
  [i \in 1..(dim * dim) |-> App("1-exp(-S*k)", sdp[i], opacity, <<>>)]

bb(temperature, wavelength) == App("bb", temperature, wavelength, <<>>)

intensity(temperature_profile, wavelength, pixel_size, dim) ==
  [i \in 1..(dim * dim) |->
     App("bb*pow(p,2)*bb_to_jy", bb(temperature_profile[i], wavelength),
         pixel_size, <<>>)]

\* ------------------------------------------------------------------ inputs
Dims == 0..MaxDim
Bounds == {<<-1, 2>>, Rat(0), <<1, 2>>, Rat(2)}
Factors == {Rat(-1), Rat(0), Rat(1), Rat(2)}
PixelSizes == {Rat(-1), Rat(0), <<1, 2>>, Rat(1), Rat(2)}
Elongs == {Rat(-1), Rat(0), <<1, 2>>, Rat(1), Rat(2)}
Flags == {0, 1}
Scalars == {Rat(1), Rat(2)}

\* -------------------------------------------------------------------- state
VARIABLES
  heap,   \* the malloc'ed blocks, in allocation order; a pointer is an index
  pc,     \* the caller's or grid()'s position
  call,   \* the call in progress or last completed
  env,    \* the caller's variables: the grid arguments and the fields it holds
  par     \* the per-pixel loops run one pixel at a time, in any order

vars == <<heap, pc, call, env, par>>

\* malloc and the loop that fills the block, by the call numbered id
StoreNew(h, data, id) ==
  Append(h, [data |-> data, live |-> TRUE, frees |-> 0, owner |-> id])

\* free(p)
Free(h, p) == [h EXCEPT ![p].live = FALSE, ![p].frees = @ + 1]

NoEnv ==
  [g |-> <<>>, xx |-> 0, yy |-> 0, radius |-> 0, const_temperature |-> 0,
   temperature_power_law |-> 0, sigma_profile |-> 0, modulation |-> 0,
   optical_thickness |-> 0, intensity |-> 0]

NoCall == [fn |-> "none", id |-> 0, args |-> <<>>, ins |-> {}, outs |-> {}, x |-> 0,
           xx |-> 0, yy |-> 0, step |-> <<>>]

NoPar == [stage |-> "none"]

Init ==
  /\ heap = <<>>
  /\ pc = "idle"
  /\ call = NoCall
  /\ env = NoEnv
  /\ par = NoPar

Dim == env.g.dim
Data(p) == heap[p].data

\* ------------------------------------------------------------- linspace call
CallLinspace(start, stop, dim, factor) ==
  /\ pc = "idle"
  /\ call' = [NoCall EXCEPT !.fn = "linspace", !.id = 1,
                !.args = [start |-> start, stop |-> stop, dim |-> dim,
                          factor |-> factor],
                !.step = linspace_step(start, stop, dim),
                !.outs = IF DivFaults(RSub(stop, start), Rat(dim)) THEN {}
                         ELSE {Len(heap) + 1}]
  /\ IF DivFaults(RSub(stop, start), Rat(dim))
       THEN /\ pc' = "fault"
            /\ heap' = heap
       ELSE /\ pc' = "linspace_returned"
            /\ heap' = StoreNew(heap, linspace(start, stop, dim, factor), 1)
  /\ UNCHANGED <<env, par>>

\* ----------------------------------------------------------------- grid call
CallGrid(dim, pixel_size, pa, elong, elliptic) ==
  /\ pc = "idle"
  /\ pc' = "grid_43"
  /\ call' = [NoCall EXCEPT !.fn = "grid", !.id = 1,
                !.args = [dim |-> dim, pixel_size |-> pixel_size, pa |-> pa,
                          elong |-> elong, elliptic |-> elliptic]]
  /\ UNCHANGED <<heap, env, par>>

\* double *x = linspace(-0.5, 0.5, dim, dim*pixel_size);
GridLinspace ==
  /\ pc = "grid_43"
  /\ LET a == call.args
     IN  IF DivFaults(RSub(<<1, 2>>, <<-1, 2>>), Rat(a.dim))
           THEN /\ pc' = "fault"
                /\ UNCHANGED <<heap, call>>
           ELSE /\ pc' = "grid_44"
                /\ heap' = StoreNew(heap,
                             linspace(<<-1, 2>>, <<1, 2>>, a.dim,
                                      RMul(Rat(a.dim), a.pixel_size)), call.id)
                /\ call' = [call EXCEPT !.x = Len(heap) + 1,
                                         !.step = linspace_step(<<-1, 2>>, <<1, 2>>,
                                                                a.dim)]
  /\ UNCHANGED <<env, par>>

\* grid.xx = meshgrid(x, dim, 1);
GridMeshXX ==
  /\ pc = "grid_44"
  /\ pc' = "grid_45"
  /\ heap' = StoreNew(heap, meshgrid(Data(call.x), call.args.dim, 1), call.id)
  /\ call' = [call EXCEPT !.xx = Len(heap) + 1]
  /\ UNCHANGED <<env, par>>

\* grid.yy = meshgrid(x, dim, 0);
GridMeshYY ==
  /\ pc = "grid_45"
  /\ pc' = "grid_47"
  /\ heap' = StoreNew(heap, meshgrid(Data(call.x), call.args.dim, 0), call.id)
  /\ call' = [call EXCEPT !.yy = Len(heap) + 1]
  /\ UNCHANGED <<env, par>>

\* free(x);
GridFree ==
  /\ pc = "grid_47"
  /\ pc' = "grid_49"
  /\ heap' = Free(heap, call.x)
  /\ UNCHANGED <<call, env, par>>

\* if (elliptic) { for (i ...) { grid.xx[i] = ...; grid.yy[i] = ...; } }
GridElliptic ==
  /\ pc = "grid_49"
  /\ pc' = "grid_55"
  /\ LET a == call.args
         g == EllipticLoop([xx |-> Data(call.xx), yy |-> Data(call.yy)], 1,
                           a.dim * a.dim, a.pa, a.elong)
     IN  heap' = IF CTrue(a.elliptic)
                   THEN [heap EXCEPT ![call.xx].data = g.xx, ![call.yy].data = g.yy]
                   ELSE heap
  /\ UNCHANGED <<call, env, par>>

\* return grid;
GridReturn ==
  /\ pc = "grid_55"
  /\ pc' = "have_grid"
  /\ call' = [call EXCEPT !.outs = {call.xx, call.yy}]
  /\ env' = [env EXCEPT !.g = call.args, !.xx = call.xx, !.yy = call.yy]
  /\ UNCHANGED <<heap, par>>

\* ------------------------------------------------------- the field functions
\* the result written over the first input block instead of a new one
Produce_in_place(at, to, fn, args, ins, data, slot) ==
  LET p == CHOOSE a \in ins : \A b \in ins : a <= b
  IN  /\ pc = at
      /\ pc' = to
      /\ heap' = [heap EXCEPT ![p].data = data]
      /\ call' = [NoCall EXCEPT !.fn = fn, !.id = call.id + 1, !.args = args,
                    !.ins = ins, !.outs = {p}]
      /\ env' = [env EXCEPT ![slot] = p]
      /\ par' = par

\* one call of a function that reads the blocks ins and returns a new block
Produce(at, to, fn, args, ins, data, slot) ==
  /\ pc = at
  /\ pc' = to
  /\ heap' = StoreNew(heap, data, call.id + 1)
  /\ call' = [NoCall EXCEPT !.fn = fn, !.id = call.id + 1, !.args = args,
                !.ins = ins, !.outs = {Len(heap) + 1}]
  /\ env' = [env EXCEPT ![slot] = Len(heap) + 1]
  /\ par' = par

CallRadius ==
  Produce("have_grid", "have_radius", "radius", <<>>, {env.xx, env.yy},
          radius(Data(env.xx), Data(env.yy), Dim), "radius")

CallConstTemperature(stellar_radius, stellar_temperature) ==
  Produce("have_radius", "have_const_temperature", "const_temperature",
          <<stellar_radius, stellar_temperature>>, {env.radius},
          const_temperature(Data(env.radius), stellar_radius,
                            stellar_temperature, Dim),
          "const_temperature")

CallTemperaturePowerLaw(inner_temp, inner_radius, q) ==
  Produce("have_const_temperature", "have_temperature_power_law",
          "temperature_power_law", <<inner_temp, inner_radius, q>>, {env.radius},
          temperature_power_law(Data(env.radius), inner_temp, inner_radius, q, Dim),
          "temperature_power_law")

CallSurfaceDensityProfile(inner_radius, inner_sigma, p) ==
  Produce("have_temperature_power_law", "have_sigma_profile",
          "surface_density_profile", <<inner_radius, inner_sigma, p>>,
          {env.radius},
          surface_density_profile(Data(env.radius), inner_radius, inner_sigma, p,
                                  Dim),
          "sigma_profile")

CallAzimuthalModulation(a, phi) ==
  Produce("have_sigma_profile", "have_modulation", "azimuthal_modulation",
          <<a, phi>>, {env.xx, env.yy},
          azimuthal_modulation(Data(env.xx), Data(env.yy), a, phi, Dim),
          "modulation")

CallOpticalThickness(opacity) ==
  Produce("have_modulation", "have_optical_thickness", "optical_thickness",
          <<opacity>>, {env.sigma_profile},
          optical_thickness(Data(env.sigma_profile), opacity, Dim),
          "optical_thickness")

\* the caller passes either temperature field
CallIntensity(t, wavelength) ==
  /\ t \in {env.const_temperature, env.temperature_power_law}
  /\ Produce("have_optical_thickness", "have_intensity", "intensity",
             <<wavelength>>, {t},
             intensity(Data(t), wavelength, env.g.pixel_size, Dim), "intensity")

Next ==
  \/ \E start \in Bounds, stop \in Bounds, dim \in Dims, factor \in Factors :
       CallLinspace(start, stop, dim, factor)
  \/ \E dim \in Dims, pixel_size \in PixelSizes, pa \in PAs, elong \in Elongs,
        elliptic \in Flags :
       CallGrid(dim, pixel_size, pa, elong, elliptic)
  \/ GridLinspace
  \/ GridMeshXX
  \/ GridMeshYY
  \/ GridFree
  \/ GridElliptic
  \/ GridReturn
  \/ CallRadius
  \/ \E t \in Scalars : CallConstTemperature(Rat(1), t)
  \/ CallTemperaturePowerLaw(Rat(2), Rat(1), <<1, 2>>)
  \/ CallSurfaceDensityProfile(Rat(1), Rat(2), Rat(1))
  \/ CallAzimuthalModulation(Rat(1), Rat(0))
  \/ CallOpticalThickness(<<1, 2>>)
  \/ \E t \in 1..Len(heap) : CallIntensity(t, Rat(1))

Spec == Init /\ [][Next]_vars

\* ------------------------------------- the per-pixel loops, in any order
\* a double of a fresh malloc'ed block, not written yet
Uninit == <<>>

ParPixels == 1..(par.dim * par.dim)

\* lines 43-47 of grid(): the planes before the elliptic loop
ParGrid(dim, pixel_size, pa, elong, elliptic) ==
  /\ par.stage = "none"
  /\ LET g == grid(dim, pixel_size, pa, elong, 0)
     IN  par' = [stage |-> IF CTrue(elliptic) THEN "elliptic" ELSE "radius",
                 dim |-> dim, pixel_size |-> pixel_size, pa |-> pa,
                 elong |-> elong, elliptic |-> elliptic,
                 xx |-> g.xx, yy |-> g.yy,
                 rad |-> [k \in 1..(dim * dim) |-> Uninit], done |-> {}]
  /\ UNCHANGED <<heap, pc, call, env>>

\* one iteration of the elliptic loop, for any pixel not yet done
ParEllipticPixel(i) ==
  /\ par.stage = "elliptic"
  /\ i \in ParPixels \ par.done
  /\ LET g == EllipticPixel([xx |-> par.xx, yy |-> par.yy], i, par.pa, par.elong)
     IN  par' = [par EXCEPT !.xx = g.xx, !.yy = g.yy, !.done = @ \cup {i}]
  /\ UNCHANGED <<heap, pc, call, env>>

\* the elliptic loop ends; radius() allocates its block
ParEllipticEnd ==
  /\ par.stage = "elliptic"
  /\ par.done = ParPixels
  /\ par' = [par EXCEPT !.stage = "radius", !.done = {}]
  /\ UNCHANGED <<heap, pc, call, env>>

\* one iteration of the loop of radius(), for any pixel not yet done
ParRadiusPixel(i) ==
  /\ par.stage = "radius"
  /\ i \in ParPixels \ par.done
  /\ par' = [par EXCEPT !.rad[i] = RadiusPixel(par.xx, par.yy, i),
                        !.done = @ \cup {i}]
  /\ UNCHANGED <<heap, pc, call, env>>

ParRadiusEnd ==
  /\ par.stage = "radius"
  /\ par.done = ParPixels
  /\ par' = [par EXCEPT !.stage = "end"]
  /\ UNCHANGED <<heap, pc, call, env>>

NextPar ==
  \/ \E dim \in 0..ParDim, pixel_size \in PixelSizes, pa \in PAs,
        elong \in Elongs, elliptic \in Flags :
       ParGrid(dim, pixel_size, pa, elong, elliptic)
  \/ \E i \in 1..(ParDim * ParDim) : ParEllipticPixel(i)
  \/ ParEllipticEnd
  \/ \E i \in 1..(ParDim * ParDim) : ParRadiusPixel(i)
  \/ ParRadiusEnd

SpecPar == Init /\ [][NextPar]_vars

\* ------------------------------------------------------------------ claims
\* element (i, j) of a row-major dim x dim plane
At(data, dim, i, j) == data[i * dim + j + 1]

\* the value the axis of grid() has at index j: (-0.5 + j/dim) * (dim*pixel_size)
AxisValue(dim, pixel_size, j) ==
  RMul(RAdd(<<-1, 2>>, RDiv(Rat(j), Rat(dim))), RMul(Rat(dim), pixel_size))

GridReturned == env.xx # 0
RadiusReturned == env.radius # 0
IsPositive(a) == a[1] > 0
XX == Data(env.xx)
YY == Data(env.yy)

LinspaceElements ==
  LET a == call.args
      out == Data(1)
  IN  /\ Len(out) = a.dim
      /\ \A i \in 0..(a.dim - 1) :
           out[i + 1] = RMul(RAdd(a.start,
                                  RDiv(RMul(Rat(i), RSub(a.stop, a.start)),
                                       Rat(a.dim))),
                             a.factor)

LinspaceExcludesStop ==
  \A i \in 1..call.args.dim : ~FEq(Data(1)[i], RMul(call.args.stop, call.args.factor))

\* C1 as stated: for every start, stop, factor and dim >= 1 the result has dim
\* elements, element i is (start + i*(stop-start)/dim)*factor, and for dim > 1
\* no element equals stop*factor.
C1_AsClaimed ==
  (pc = "linspace_returned" /\ call.args.dim >= 1)
    => /\ LinspaceElements
       /\ call.args.dim > 1 => LinspaceExcludesStop

\* C1 amended: for every start, stop, factor and dim >= 1 the result has dim
\* elements and element i is (start + i*(stop-start)/dim)*factor; for dim > 1,
\* start # stop and factor # 0 no element equals stop*factor.
C1_Linspace ==
  (pc = "linspace_returned" /\ call.args.dim >= 1)
    => /\ LinspaceElements
       /\ (call.args.dim > 1 /\ call.args.start # call.args.stop
             /\ call.args.factor # Rat(0)) => LinspaceExcludesStop

C1_Witness ==
  /\ pc = "linspace_returned"
  /\ call.args.dim = 3
  /\ call.args.start = <<-1, 2>> /\ call.args.stop = Rat(2)
  /\ call.args.factor = Rat(2)

\* C2: for dim >= 1 and pixel_size > 0 the non-elliptic planes are row-major
\* with xx[i][j] depending only on j and strictly increasing in j, yy[i][j]
\* depending only on i and strictly increasing in i, and xx[i][j] = yy[j][i].
C2_PlaneLayout ==
  (GridReturned /\ env.g.elliptic = 0 /\ Dim >= 1 /\ IsPositive(env.g.pixel_size))
    => /\ Len(XX) = Dim * Dim /\ Len(YY) = Dim * Dim
       /\ \A i \in 0..(Dim - 1), j \in 0..(Dim - 1) :
            /\ At(XX, Dim, i, j) = At(XX, Dim, 0, j)
            /\ At(YY, Dim, i, j) = At(YY, Dim, i, 0)
            /\ j < Dim - 1 => FLt(At(XX, Dim, i, j), At(XX, Dim, i, j + 1))
            /\ i < Dim - 1 => FLt(At(YY, Dim, i, j), At(YY, Dim, i + 1, j))
            /\ At(XX, Dim, i, j) = At(YY, Dim, j, i)

C2_Witness ==
  /\ pc = "have_grid" /\ env.g.elliptic = 0 /\ Dim = 3
  /\ env.g.pixel_size = <<1, 2>>

\* the planes before the elliptic loop, at pixel (i, j)
X0(i, j) == AxisValue(Dim, env.g.pixel_size, j)
Y0(i, j) == AxisValue(Dim, env.g.pixel_size, i)
\* the rotated x, the sequential y and the simultaneous y of pixel (i, j)
XRot(i, j) == RSub(RMul(X0(i, j), Cos(env.g.pa)), RMul(Y0(i, j), Sin(env.g.pa)))
YSeq(i, j) ==
  RDiv(RAdd(RMul(XRot(i, j), Sin(env.g.pa)), RMul(Y0(i, j), Cos(env.g.pa))),
       env.g.elong)
YSim(i, j) ==
  RDiv(RAdd(RMul(X0(i, j), Sin(env.g.pa)), RMul(Y0(i, j), Cos(env.g.pa))),
       env.g.elong)

SequentialUpdate ==
  \A i \in 0..(Dim - 1), j \in 0..(Dim - 1) :
    /\ At(XX, Dim, i, j) = XRot(i, j)
    /\ At(YY, Dim, i, j) = YSeq(i, j)

\* C3 as stated: with elliptic set every pixel gets xx' = xx*cos - yy*sin and
\* then yy' = (xx'*sin + yy*cos)/elong, and yy' differs from the simultaneous
\* (xx*sin + yy*cos)/elong whenever xx' # xx and sin(pa) # 0.
C3_AsClaimed ==
  (GridReturned /\ env.g.elliptic # 0)
    => /\ SequentialUpdate
       /\ \A i \in 0..(Dim - 1), j \in 0..(Dim - 1) :
            (~FEq(XRot(i, j), X0(i, j)) /\ Sin(env.g.pa) # Rat(0))
              => ~FEq(At(YY, Dim, i, j), YSim(i, j))

\* C3 amended: as stated, the difference from the simultaneous rotation being
\* claimed only for a non-zero elong.
C3_SequentialUpdate ==
  (GridReturned /\ env.g.elliptic # 0)
    => /\ SequentialUpdate
       /\ \A i \in 0..(Dim - 1), j \in 0..(Dim - 1) :
            (~FEq(XRot(i, j), X0(i, j)) /\ Sin(env.g.pa) # Rat(0)
               /\ env.g.elong # Rat(0))
              => ~FEq(At(YY, Dim, i, j), YSim(i, j))

C3_Witness ==
  /\ pc = "have_grid" /\ env.g.elliptic = 1 /\ env.g.pa = 1 /\ Dim = 2
  /\ env.g.elong = Rat(2) /\ env.g.pixel_size = Rat(1)
  /\ At(XX, Dim, 0, 0) # X0(0, 0)
  /\ At(YY, Dim, 0, 0) # YSim(0, 0)

\* C4: with elliptic set, pa = 0 and elong # 0, xx equals the xx plane of the
\* non-elliptic grid of the same dim and pixel_size, and yy equals the
\* non-elliptic yy plane divided elementwise by elong.
C4_ZeroAngle ==
  (GridReturned /\ env.g.elliptic # 0 /\ env.g.pa = 0 /\ env.g.elong # Rat(0)
     /\ Dim >= 1)
    => LET plain == grid(Dim, env.g.pixel_size, env.g.pa, env.g.elong, 0)
       IN  /\ XX = plain.xx
           /\ YY = [k \in 1..(Dim * Dim) |-> RDiv(plain.yy[k], env.g.elong)]

C4_Witness ==
  /\ pc = "have_grid" /\ env.g.elliptic = 1 /\ env.g.pa = 0
  /\ env.g.elong = Rat(2) /\ Dim = 3 /\ env.g.pixel_size = Rat(1)

EndToEndCase(a) == a.dim = 2 /\ a.pixel_size = Rat(1) /\ a.elliptic = 0

\* C5: for dim = 2, pixel_size = 1 without ellipse the axis is [-1, 0],
\* xx = [[-1,0],[-1,0]], yy = [[-1,-1],[0,0]] and radius = [[sqrt(2),1],[1,0]].
C5_EndToEnd ==
  /\ (call.fn = "grid" /\ call.x # 0 /\ EndToEndCase(call.args))
       => Data(call.x) = <<Rat(-1), Rat(0)>>
  /\ (GridReturned /\ EndToEndCase(env.g))
       => /\ XX = <<Rat(-1), Rat(0), Rat(-1), Rat(0)>>
          /\ YY = <<Rat(-1), Rat(-1), Rat(0), Rat(0)>>
  /\ (RadiusReturned /\ EndToEndCase(env.g))
       => Data(env.radius) = <<<<2, 1, 2>>, Rat(1), Rat(1), Rat(0)>>

C5_Witness == pc = "have_radius" /\ EndToEndCase(env.g)

EvenDimCase ==
  /\ RadiusReturned /\ env.g.elliptic = 0
  /\ Dim >= 2 /\ Dim % 2 = 0 /\ IsPositive(env.g.pixel_size)

\* C6 as stated: for even dim >= 2 and pixel_size > 0 the radius field of the
\* non-elliptic grid has no element equal to 0.
C6_AsClaimed ==
  EvenDimCase => \A k \in 1..(Dim * Dim) : IsPositive(Data(env.radius)[k])

\* C6 amended: for even dim >= 2 and pixel_size > 0 the radius field of the
\* non-elliptic grid has exactly one element equal to 0, at pixel
\* (dim/2, dim/2), and is positive at every other pixel.
C6_CentreZero ==
  EvenDimCase
    => \A i \in 0..(Dim - 1), j \in 0..(Dim - 1) :
         IF i = Dim \div 2 /\ j = Dim \div 2
           THEN At(Data(env.radius), Dim, i, j) = Rat(0)
           ELSE IsPositive(At(Data(env.radius), Dim, i, j))

C6_Witness == pc = "have_radius" /\ EvenDimCase /\ Dim = 4

ZeroDimCall == call.fn \in {"linspace", "grid"} /\ call.args.dim = 0

\* C7 as stated: linspace (and hence grid) with dim = 0 ends in an arithmetic
\* fault when the step is computed, not in a normal return.
C7_AsClaimed ==
  (ZeroDimCall /\ pc # "grid_43") => pc = "fault"

\* C7 amended: linspace (and hence grid) with dim = 0 raises no fault: the
\* step is an infinity or a NaN, no element is written, and the call returns
\* an empty result.
C7_ZeroDimReturns ==
  /\ (ZeroDimCall /\ pc # "grid_43")
       => /\ pc # "fault"
          /\ ~IsFinite(call.step)
          /\ Data(1) = <<>>
  /\ (GridReturned /\ Dim = 0) => XX = <<>> /\ YY = <<>>

C7_Witness == pc = "linspace_returned" /\ call.args.dim = 0

\* C8: with elliptic false the planes do not depend on pa or elong (elong = 0
\* included): they are the broadcast of the axis of dim and pixel_size.
C8_FlagOff ==
  (GridReturned /\ env.g.elliptic = 0)
    => /\ Len(XX) = Dim * Dim /\ Len(YY) = Dim * Dim
       /\ \A i \in 0..(Dim - 1), j \in 0..(Dim - 1) :
            /\ At(XX, Dim, i, j) = AxisValue(Dim, env.g.pixel_size, j)
            /\ At(YY, Dim, i, j) = AxisValue(Dim, env.g.pixel_size, i)

C8_Witness ==
  /\ pc = "have_grid" /\ env.g.elliptic = 0 /\ env.g.pa = 1
  /\ env.g.elong = Rat(0) /\ Dim = 2

Completed ==
  pc \in {"linspace_returned", "have_grid", "have_radius",
          "have_const_temperature", "have_temperature_power_law",
          "have_sigma_profile", "have_modulation", "have_optical_thickness",
          "have_intensity"}

\* after a call: its results are blocks it allocated, none of them an input;
\* grid's two planes are two blocks and its axis was freed once
FreshResults ==
  Completed
    => /\ call.outs \cap call.ins = {}
       /\ \A o \in call.outs : heap[o].live /\ heap[o].owner = call.id
       /\ \A p \in call.ins : heap[p].live /\ heap[p].owner < call.id
       /\ call.fn = "grid"
            => /\ call.xx # call.yy
               /\ call.outs = {call.xx, call.yy}
               /\ ~heap[call.x].live /\ heap[call.x].frees = 1

\* a step writes only to blocks allocated by the call it belongs to, leaves
\* every input as it was, and frees only grid's axis, once, when both planes
\* hold its broadcast
FrameStep ==
  /\ Len(heap') >= Len(heap)
  /\ \A p \in 1..Len(heap) :
       /\ heap'[p].owner = heap[p].owner
       /\ heap'[p].data # heap[p].data => heap[p].owner = call'.id
       /\ p \in call'.ins => heap'[p] = heap[p]
       /\ heap'[p].live # heap[p].live => heap'[p].frees = heap[p].frees + 1
       /\ heap'[p].frees # heap[p].frees
            => /\ p = call.x /\ heap[p].frees = 0
               /\ call.xx # 0 /\ call.yy # 0
               /\ LET d == call.args.dim
                  IN  \A i \in 0..(d - 1), j \in 0..(d - 1) :
                        /\ At(Data(call.xx), d, i, j) = Data(p)[j + 1]
                        /\ At(Data(call.yy), d, i, j) = Data(p)[i + 1]

\* C9: every field-producing function writes only to an array it allocated
\* during that call: the returned array is distinct from every input array,
\* every input array is left unchanged, the two planes of grid are distinct
\* arrays, and grid's temporary axis is freed exactly once and only after
\* both planes have been filled from it.
C9_FreshArrays == []FreshResults /\ [][FrameStep]_vars

C9_Witness ==
  /\ pc = "have_intensity" /\ Dim = 2 /\ env.g.elliptic = 1
  /\ Len(heap) = 10 /\ ~heap[1].live
  /\ \A p \in 2..10 : heap[p].live

ParFinal == grid(par.dim, par.pixel_size, par.pa, par.elong, par.elliptic)
ParInitial == grid(par.dim, par.pixel_size, par.pa, par.elong, 0)

\* C10: the value a per-pixel loop writes for pixel i depends only on the
\* inputs of pixel i, so the pixels taken one atomic step each, in any order,
\* give the arrays of the sequential loop.
C10_AnyOrder ==
  LET final == ParFinal
      initial == ParInitial
      seqrad == radius(final.xx, final.yy, par.dim)
  IN  /\ par.stage = "elliptic"
           => \A i \in ParPixels :
                /\ par.xx[i] = IF i \in par.done THEN final.xx[i] ELSE initial.xx[i]
                /\ par.yy[i] = IF i \in par.done THEN final.yy[i] ELSE initial.yy[i]
      /\ par.stage \in {"radius", "end"}
           => /\ par.xx = final.xx /\ par.yy = final.yy
              /\ \A i \in ParPixels :
                   par.rad[i] = IF i \in par.done THEN seqrad[i] ELSE Uninit

\* pixels 4 and 2 done before pixel 1: no prefix of the sequential loop
C10_Witness ==
  /\ par.stage = "elliptic" /\ par.dim = 2 /\ par.pa = 1
  /\ par.elong = Rat(2) /\ par.pixel_size = Rat(1)
  /\ par.done = {2, 4}
====
